---- MODULE Spec2Model ----
(***************************************************************************)
(* ca-bloom-filter: BloomFilter (src/src/BloomFilter.js), the capacity     *)
(* aware SafeBloomFilter (src/src/SafeBloomFilter.js) and the BloomFilter  *)
(* variant exported by src/src/index.js.                                   *)
(*                                                                         *)
(* One filter object is the state.  Init is the state right after a        *)
(* constructor call that returned; every method is one action (Spec).      *)
(* Beside a SafeBloomFilter runs a BloomFilter of the same dimensions that *)
(* is given the same calls (twin).  SizingSpec is the specification of the *)
(* SafeBloomFilter constructor and its two static sizing functions, called *)
(* on arguments from bounded sets.                                         *)
(*                                                                         *)
(* JavaScript numbers: the model uses integers.  A false positive rate is  *)
(* held in thousandths (0.9 is 900), which is exact for the 3-digit values *)
(* toFixed(3) produces.  NaN and undefined are the two negative codes NaN  *)
(* and Undefined; -0 is 0.                                                 *)
(*                                                                         *)
(* The two dependencies are not part of the repository.  bit-vec is        *)
(* modelled as a Uint8Array-backed bit array with JavaScript typed array   *)
(* semantics (a write outside the storage is ignored, a read outside it is *)
(* falsy); whether its `bits` field is the requested size or the storage   *)
(* size (a multiple of 8) is not decided by the sources, so Init chooses.  *)
(* imurmurhash is modelled as an incremental seeded hash object: hash(key) *)
(* absorbs the key into the object's state, result() digests the state,    *)
(* reset(seed) clears it.  Its mixing function is a stand-in of width      *)
(* HashMod (the library's is 2^32).                                        *)
(***************************************************************************)
EXTENDS Integers, Sequences, FiniteSets, TLC

VARIABLES
    kind,      \* which class the object is: "BloomFilter", "SafeBloomFilter", "IndexBloomFilter"
    bits,      \* this.bits (this.size in index.js)
    k,         \* this.k
    bitArray,  \* this.bitArray
    hashOne,   \* this.hashOne
    hashTwo,   \* this.hashTwo
    inserts,   \* this.inserts (this.count in index.js)
    capacity,  \* this.capacity (SafeBloomFilter only)
    ret,       \* outcome of the last call on the object
    target,    \* history: the falsePositiveRate argument of new SafeBloomFilter
    calls,     \* history: number of add calls made so far
    added,     \* history: keys whose add returned normally
    arg,       \* history: the filter passed to the last call, when it was equals
    nums,      \* history: the numbers passed to the last constructor or static call
    twin       \* beside a SafeBloomFilter: a BloomFilter(bits, k) given the same calls

vars == <<kind, bits, k, bitArray, hashOne, hashTwo, inserts, capacity, ret, target, calls, added,
          arg, nums, twin>>

-----------------------------------------------------------------------------
(* Bounds of the model *)

MaxBits == 4
MaxHashes == 3
MaxCapacity == 2
MaxAdds == 3
HashMod == 32749

-----------------------------------------------------------------------------
(* JavaScript values that are not integers *)

NaN == -1
Undefined == -2
Infinity == -3

IsNumber(x) == x >= 0

(* Keys, as sequences of char codes: 'foo', 'bar' (the tests), 'cheese' (README) *)
KeyFoo == <<102, 111, 111>>
KeyBar == <<98, 97, 114>>
KeyCheese == <<99, 104, 101, 101, 115, 101>>
Keys == {KeyFoo, KeyBar, KeyCheese}

seedOne == 535345345
seedTwo == 312312323

-----------------------------------------------------------------------------
(* imurmurhash, as used by BloomFilter *)

MurReset(seed) == [h1 |-> seed, len |-> 0]

(* one mixing round: absorbs the value c into the state h *)
MurRound(h, c) == LET x == h % HashMod IN (x * x + 3 * x + c) % HashMod

RECURSIVE MurMix(_, _, _)
MurMix(h, key, i) ==
    IF i > Len(key) THEN h
    ELSE MurMix(MurRound(h, key[i]), key, i + 1)

MurHash(m, key) == [h1 |-> MurMix(m.h1, key, 1), len |-> m.len + Len(key)]

MurResult(m) == MurRound(m.h1, m.len)

MurMur(key, seed) == IF Len(key) > 0 THEN MurHash(MurReset(seed), key) ELSE MurReset(seed)

-----------------------------------------------------------------------------
(* bit-vec, as used by BloomFilter *)

CeilDiv(a, b) == (a + b - 1) \div b

BitVector(size, storageBits) ==
    [array  |-> {},
     length |-> CeilDiv(size, 8),
     bits   |-> IF storageBits THEN 8 * CeilDiv(size, 8) ELSE size]

BvInStorage(bv, index) == index >= 0 /\ index < 8 * bv.length

BvSet(bv, index) == IF BvInStorage(bv, index) THEN [bv EXCEPT !.array = @ \cup {index}] ELSE bv

BvGet(bv, index) == index \in bv.array

BvCount(bv) == Cardinality(bv.array)

BvEquals(a, b) == a.length = b.length /\ a.array = b.array

-----------------------------------------------------------------------------
(* JavaScript arithmetic *)

JsMod(a, m) == IF m = 0 THEN NaN ELSE a % m

JsInc(x) == IF IsNumber(x) THEN x + 1 ELSE NaN

RECURSIVE Pow(_, _)
Pow(b, e) == IF e = 0 THEN 1 ELSE b * Pow(b, e - 1)

(* +(num/den).toFixed(3), in thousandths: nearest, ties to the larger *)
ToFixed3(num, den) == (2000 * num + den) \div (2 * den)

-----------------------------------------------------------------------------
(* SafeBloomFilter's sizing functions.  Rates are in thousandths. *)

Rates == {-100, 0, 200, 500, 900, 1000, 1500}

(* -Math.log(rate) in millionths, for the rates of the model; Math.log(0) is -Infinity *)
NegMathLog(rate) ==
    CASE rate = 0    -> Infinity
      [] rate = 200  -> 1609438
      [] rate = 500  -> 693147
      [] rate = 900  -> 105361
      [] rate = 1000 -> 0

(* Math.LN2 ** 2 and Math.LN2 in millionths *)
ln2Sq == 480453
LN2 == 693147
Million == 1000 * 1000

Return(v) == [throws |-> FALSE, error |-> "", value |-> v]
Throw(msg) == [throws |-> TRUE, error |-> msg, value |-> Undefined]

(* variant: the rate is validated before the insert count is looked at *)
estimateNumberBitsRateFirst(expectedInserts, falsePositiveRate) ==
    IF falsePositiveRate < 0 \/ falsePositiveRate > 1000
    THEN Throw("Invalid false positive rate")
    ELSE IF expectedInserts <= 0 THEN Return(0)
    ELSE LET negLnP == NegMathLog(falsePositiveRate)
         IN  IF negLnP = Infinity THEN Return(Infinity)
             ELSE Return(CeilDiv(expectedInserts * negLnP, ln2Sq))

estimateNumberBits(expectedInserts, falsePositiveRate) ==
    IF expectedInserts <= 0 THEN Return(0)
    ELSE IF falsePositiveRate < 0 \/ falsePositiveRate > 1000
         THEN Throw("Invalid false positive rate")
    ELSE LET negLnP == NegMathLog(falsePositiveRate)
         IN  IF negLnP = Infinity THEN Return(Infinity)
             ELSE Return(CeilDiv(expectedInserts * negLnP, ln2Sq))

optimalNumHashFunctions(expectedInserts, nbits) ==
    LET min == 1
    IN  IF nbits = Infinity
        THEN (IF expectedInserts >= 0 THEN Infinity ELSE min)
        ELSE IF expectedInserts = 0
        THEN (IF nbits > 0 THEN Infinity ELSE min)
        ELSE IF expectedInserts > 0 /\ nbits * LN2 > min * expectedInserts * Million
        THEN CeilDiv(nbits * LN2, expectedInserts * Million)
        ELSE min

(* new SafeBloomFilter(expectedInserts, falsePositiveRate): the arguments of  *)
(* super(), or the error the constructor ends with.  new BitVector(Infinity) *)
(* is new Uint8Array(Infinity), a RangeError.                               *)
SafeBloomFilterArgs(expectedInserts, falsePositiveRate) ==
    LET e == estimateNumberBits(expectedInserts, falsePositiveRate)
    IN  IF e.throws THEN [error |-> e.error, bits |-> Undefined, k |-> Undefined]
        ELSE IF e.value = Infinity
        THEN [error |-> "RangeError", bits |-> Infinity, k |-> Infinity]
        ELSE [error |-> "", bits |-> e.value,
              k |-> optimalNumHashFunctions(expectedInserts, e.value)]

-----------------------------------------------------------------------------
(* Construction *)

NoCall == [op |-> "new", key |-> <<>>, ok |-> TRUE, error |-> "",
           bool |-> FALSE, num |-> 0, idx |-> <<>>]

(* the fields of another filter object, as equals receives it *)
Filter(nbits, numHashers, bv, ins) ==
    [bits |-> nbits, k |-> numHashers, bitArray |-> bv, inserts |-> ins]

NoFilter == Filter(0, 0, BitVector(0, FALSE), 0)

(* the fields constructor(bits, numHashers) of BloomFilter.js sets, and   *)
(* this.capacity of SafeBloomFilter; index.js leaves the counter          *)
(* (this.count) unset                                                     *)
Fields(kd, nbits, numHashers, cap, storageBits) ==
    [bits |-> nbits, k |-> numHashers, bitArray |-> BitVector(nbits, storageBits),
     hashOne |-> MurMur(<<>>, seedOne), hashTwo |-> MurMur(<<>>, seedTwo),
     inserts |-> IF kd = "IndexBloomFilter" THEN Undefined ELSE 0,
     capacity |-> cap]

(* a BloomFilter object of BloomFilter.js with the answer of its last query *)
Plain(bv, ins, h1, h2, bool, num) ==
    [bitArray |-> bv, inserts |-> ins, hashOne |-> h1, hashTwo |-> h2,
     bool |-> bool, num |-> num]

NoTwin == Plain(BitVector(0, FALSE), 0, MurReset(seedOne), MurReset(seedTwo), FALSE, 0)

(* new BloomFilter(nbits, numHashers) *)
NewPlain(nbits, numHashers, storageBits) ==
    LET f == Fields("BloomFilter", nbits, numHashers, Undefined, storageBits)
    IN  Plain(f.bitArray, f.inserts, f.hashOne, f.hashTwo, FALSE, 0)

Construct(kd, nbits, numHashers, cap, rate, storageBits) ==
    LET f == Fields(kd, nbits, numHashers, cap, storageBits)
    IN  /\ twin = IF kd = "SafeBloomFilter" THEN NewPlain(nbits, numHashers, storageBits)
                  ELSE NoTwin
        /\ kind = kd
        /\ bits = f.bits
        /\ k = f.k
        /\ bitArray = f.bitArray
        /\ hashOne = f.hashOne
        /\ hashTwo = f.hashTwo
        /\ inserts = f.inserts
        /\ capacity = f.capacity
        /\ ret = NoCall
        /\ target = rate
        /\ calls = 0
        /\ added = {}
        /\ arg = NoFilter
        /\ nums = IF kd = "SafeBloomFilter" THEN <<cap, rate>> ELSE <<nbits, numHashers>>

Init ==
    \E storageBits \in BOOLEAN :
        \/ \E kd \in {"BloomFilter", "IndexBloomFilter"}, b \in 0..MaxBits, h \in 0..MaxHashes :
               Construct(kd, b, h, Undefined, Undefined, storageBits)
        \/ \E n \in (-1)..MaxCapacity, p \in Rates :
               LET a == SafeBloomFilterArgs(n, p)
               IN  /\ a.error = ""
                   /\ Construct("SafeBloomFilter", a.bits, a.k, n, p, storageBits)

-----------------------------------------------------------------------------
(* calculateBitIndices *)

(* variant: the loop counts from 1 *)
RECURSIVE kHashesFromOne(_, _, _)
kHashesFromOne(i, hash1, hash2) ==
    IF i >= k THEN <<>>
    ELSE <<JsMod(hash1 + ((i + 1) * hash2), bits)>> \o kHashesFromOne(i + 1, hash1, hash2)

RECURSIVE kHashesFrom(_, _, _)
kHashesFrom(i, hash1, hash2) ==
    IF i >= k THEN <<>>
    ELSE <<JsMod(hash1 + (i * hash2), bits)>> \o kHashesFrom(i + 1, hash1, hash2)

(* variant: the hash objects are not reset *)
calculateBitIndicesNoReset(key) ==
    LET hash1 == MurResult(MurHash(hashOne, key))
        hash2 == MurResult(MurHash(hashTwo, key))
    IN  [kHashes |-> kHashesFrom(0, hash1, hash2),
         hashOne |-> MurHash(hashOne, key),
         hashTwo |-> MurHash(hashTwo, key)]

(* variant: the hash objects are reset with each other's seed *)
calculateBitIndicesSwapped(key) ==
    LET hash1 == MurResult(MurHash(hashOne, key))
        hash2 == MurResult(MurHash(hashTwo, key))
    IN  [kHashes |-> kHashesFrom(0, hash1, hash2),
         hashOne |-> MurReset(seedTwo),
         hashTwo |-> MurReset(seedOne)]

(* the indices returned, and the two hash objects as the call leaves them *)
calculateBitIndices(key) ==
    LET hash1 == MurResult(MurHash(hashOne, key))
        hash2 == MurResult(MurHash(hashTwo, key))
    IN  [kHashes |-> kHashesFrom(0, hash1, hash2),
         hashOne |-> MurReset(seedOne),
         hashTwo |-> MurReset(seedTwo)]

-----------------------------------------------------------------------------
(* The methods: each yields its result and the object's fields after it *)

Outcome(ok, error, bool, num, idx, bv, ins, h1, h2) ==
    [ok |-> ok, error |-> error, bool |-> bool, num |-> num, idx |-> idx,
     bitArray |-> bv, inserts |-> ins, hashOne |-> h1, hashTwo |-> h2]

(* variant: the loop flips each bit instead of setting it *)
RECURSIVE SetLoopFlip(_, _, _)
SetLoopFlip(bv, indices, i) ==
    IF i > Len(indices) THEN bv
    ELSE SetLoopFlip(IF BvGet(bv, indices[i])
                     THEN [bv EXCEPT !.array = @ \ {indices[i]}]
                     ELSE BvSet(bv, indices[i]),
                     indices, i + 1)

(* variant: the loop starts at the second index *)
RECURSIVE SetLoopSkipFirst(_, _, _)
SetLoopSkipFirst(bv, indices, i) ==
    IF i > Len(indices) THEN bv
    ELSE SetLoopSkipFirst(IF i = 1 THEN bv ELSE BvSet(bv, indices[i]), indices, i + 1)

RECURSIVE SetLoop(_, _, _)
SetLoop(bv, indices, i) ==
    IF i > Len(indices) THEN bv ELSE SetLoop(BvSet(bv, indices[i]), indices, i + 1)

(* BloomFilter.add *)
add(key) ==
    LET c == calculateBitIndices(key)
    IN  Outcome(TRUE, "", FALSE, 0, <<>>,
                SetLoop(bitArray, c.kHashes, 1), inserts + 1, c.hashOne, c.hashTwo)

(* variant: the capacity check is off by one *)
BelowCapacityInclusive == inserts <= capacity

BelowCapacity == inserts < capacity

(* variant: the insert is made before the error is raised *)
AtCapacityAfterInsert(key) ==
    LET c == calculateBitIndices(key)
    IN  Outcome(FALSE, "Filter at capacity", FALSE, 0, <<>>,
                SetLoop(bitArray, c.kHashes, 1), inserts + 1, c.hashOne, c.hashTwo)

AtCapacity(key) ==
    Outcome(FALSE, "Filter at capacity", FALSE, 0, <<>>, bitArray, inserts, hashOne, hashTwo)

(* variant: an add that finds all its bits set is not counted *)
safeAddCountNew(key) ==
    IF BelowCapacity
    THEN LET c == calculateBitIndices(key)
         IN  Outcome(TRUE, "", FALSE, 0, <<>>, SetLoop(bitArray, c.kHashes, 1),
                     IF \A i \in 1..Len(c.kHashes) : BvGet(bitArray, c.kHashes[i])
                     THEN inserts ELSE inserts + 1,
                     c.hashOne, c.hashTwo)
    ELSE AtCapacity(key)

(* SafeBloomFilter.add *)
safeAdd(key) ==
    IF BelowCapacity
    THEN LET c == calculateBitIndices(key)
         IN  Outcome(TRUE, "", FALSE, 0, <<>>,
                     SetLoop(bitArray, c.kHashes, 1), inserts + 1, c.hashOne, c.hashTwo)
    ELSE AtCapacity(key)

RECURSIVE IndexSetLoop(_, _, _, _)
IndexSetLoop(bv, indices, i, numAlreadySet) ==
    IF i > Len(indices) THEN [bitArray |-> bv, numAlreadySet |-> numAlreadySet]
    ELSE IndexSetLoop(BvSet(bv, indices[i]), indices, i + 1,
                      IF BvGet(bv, indices[i]) THEN numAlreadySet + 1 ELSE numAlreadySet)

(* BloomFilter.add of index.js; the counter is this.count *)
indexAdd(key) ==
    LET c == calculateBitIndices(key)
        l == IndexSetLoop(bitArray, c.kHashes, 1, 0)
    IN  Outcome(TRUE, "", FALSE, 0, <<>>, l.bitArray,
                IF l.numAlreadySet < Len(c.kHashes) THEN JsInc(inserts) ELSE inserts,
                c.hashOne, c.hashTwo)

(* variant: one set bit is enough *)
RECURSIVE ContainsLoopAny(_, _, _)
ContainsLoopAny(bv, indices, i) ==
    IF i > Len(indices) THEN FALSE
    ELSE IF BvGet(bv, indices[i]) THEN TRUE
    ELSE ContainsLoopAny(bv, indices, i + 1)

RECURSIVE ContainsLoop(_, _, _)
ContainsLoop(bv, indices, i) ==
    IF i > Len(indices) THEN TRUE
    ELSE IF ~BvGet(bv, indices[i]) THEN FALSE
    ELSE ContainsLoop(bv, indices, i + 1)

(* variant: the bits are set while they are tested *)
containsSetting(key) ==
    LET c == calculateBitIndices(key)
    IN  Outcome(TRUE, "", ContainsLoop(bitArray, c.kHashes, 1), 0, <<>>,
                SetLoop(bitArray, c.kHashes, 1), inserts, c.hashOne, c.hashTwo)

contains(key) ==
    LET c == calculateBitIndices(key)
    IN  Outcome(TRUE, "", ContainsLoop(bitArray, c.kHashes, 1), 0, <<>>,
                bitArray, inserts, c.hashOne, c.hashTwo)

(* variant: the hash count and the insert count are compared as well *)
equalsCounted(other) ==
    Outcome(TRUE, "", BvEquals(other.bitArray, bitArray) /\ other.k = k /\ other.inserts = inserts,
            0, <<>>, bitArray, inserts, hashOne, hashTwo)

equals(other) ==
    Outcome(TRUE, "", BvEquals(other.bitArray, bitArray), 0, <<>>,
            bitArray, inserts, hashOne, hashTwo)

(* (count / bits) ** k, then +(rate).toFixed(3), in thousandths *)
Rate(count, nbits, hashes) ==
    IF hashes = 0 THEN 1000
    ELSE IF nbits = 0 THEN NaN
    ELSE ToFixed3(Pow(count, hashes), Pow(nbits, hashes))

falsePositiveRate ==
    Outcome(TRUE, "", FALSE, Rate(BvCount(bitArray), bitArray.bits, k), <<>>,
            bitArray, inserts, hashOne, hashTwo)

indices(key) ==
    LET c == calculateBitIndices(key)
    IN  Outcome(TRUE, "", FALSE, 0, c.kHashes, bitArray, inserts, c.hashOne, c.hashTwo)

-----------------------------------------------------------------------------
(* The methods of BloomFilter.js on another object f of the same bits and k *)

PlainIndices(f, key) ==
    kHashesFrom(0, MurResult(MurHash(f.hashOne, key)), MurResult(MurHash(f.hashTwo, key)))

PlainAdd(f, key) ==
    Plain(SetLoop(f.bitArray, PlainIndices(f, key), 1), f.inserts + 1,
          MurReset(seedOne), MurReset(seedTwo), f.bool, f.num)

PlainContains(f, key) ==
    Plain(f.bitArray, f.inserts, MurReset(seedOne), MurReset(seedTwo),
          ContainsLoop(f.bitArray, PlainIndices(f, key), 1), f.num)

PlainEquals(f, other) ==
    [f EXCEPT !.bool = BvEquals(other.bitArray, f.bitArray)]

PlainRate(f) ==
    [f EXCEPT !.num = Rate(BvCount(f.bitArray), f.bitArray.bits, k)]

(* the same call on the twin, when there is one *)
OnTwin(f) == twin' = IF kind = "SafeBloomFilter" THEN f ELSE twin

-----------------------------------------------------------------------------
(* Actions: one call on the object *)

CallWith(op, key, other, r) ==
    /\ ret' = [op |-> op, key |-> key, ok |-> r.ok, error |-> r.error,
               bool |-> r.bool, num |-> r.num, idx |-> r.idx]
    /\ arg' = other
    /\ bitArray' = r.bitArray
    /\ inserts' = r.inserts
    /\ hashOne' = r.hashOne
    /\ hashTwo' = r.hashTwo
    /\ UNCHANGED <<kind, bits, k, capacity, target, nums>>

Call(op, key, r) == CallWith(op, key, NoFilter, r)

AddCall(key, r) ==
    /\ calls < MaxAdds
    /\ Call("add", key, r)
    /\ calls' = calls + 1
    /\ added' = IF r.ok THEN added \cup {key} ELSE added

BloomFilterAdd(key) ==
    kind = "BloomFilter" /\ AddCall(key, add(key)) /\ UNCHANGED twin

SafeBloomFilterAdd(key) ==
    kind = "SafeBloomFilter" /\ AddCall(key, safeAdd(key)) /\ OnTwin(PlainAdd(twin, key))

IndexAdd(key) ==
    kind = "IndexBloomFilter" /\ AddCall(key, indexAdd(key)) /\ UNCHANGED twin

Contains(key) ==
    /\ Call("contains", key, contains(key))
    /\ OnTwin(PlainContains(twin, key))
    /\ UNCHANGED <<calls, added>>

(* another BloomFilter(nbits, numHashers) after n calls of add(key) *)
OtherAfter(nbits, numHashers, key, n) ==
    LET hash1 == MurResult(MurHash(MurMur(<<>>, seedOne), key))
        hash2 == MurResult(MurHash(MurMur(<<>>, seedTwo), key))
        kHashes == [i \in 1..numHashers |-> JsMod(hash1 + ((i - 1) * hash2), nbits)]
    IN  Filter(nbits, numHashers,
               IF n = 0 THEN BitVector(nbits, FALSE)
               ELSE SetLoop(BitVector(nbits, FALSE), kHashes, 1),
               n)

(* the other filter of equals: new ones of the same dimensions, of another *)
(* hash count or of another size, one that went through the same calls,    *)
(* and ones of the same dimensions to which a key was added once or twice  *)
Others ==
    {OtherAfter(bits, k, KeyFoo, 0), OtherAfter(bits, k + 1, KeyFoo, 0),
     OtherAfter(bits + 8, k, KeyFoo, 0), Filter(bits, k, bitArray, inserts)}
        \cup {OtherAfter(bits, k, key, 1) : key \in Keys}
        \cup {OtherAfter(bits, k, key, 2) : key \in Keys}

Equals(other) ==
    /\ CallWith("equals", <<>>, other, equals(other))
    /\ OnTwin(PlainEquals(twin, other))
    /\ UNCHANGED <<calls, added>>

FalsePositiveRate ==
    /\ Call("falsePositiveRate", <<>>, falsePositiveRate)
    /\ OnTwin(PlainRate(twin))
    /\ UNCHANGED <<calls, added>>

CalculateBitIndices(key) ==
    /\ Call("calculateBitIndices", key, indices(key))
    /\ UNCHANGED <<calls, added, twin>>

Next ==
    \/ \E key \in Keys : BloomFilterAdd(key)
    \/ \E key \in Keys : SafeBloomFilterAdd(key)
    \/ \E key \in Keys : IndexAdd(key)
    \/ \E key \in Keys : Contains(key)
    \/ \E other \in Others : Equals(other)
    \/ FalsePositiveRate
    \/ \E key \in Keys : CalculateBitIndices(key)

Spec == Init /\ [][Next]_vars

-----------------------------------------------------------------------------
(* Sizing and construction of a SafeBloomFilter: the two static functions  *)
(* and the constructor as calls of their own, on inputs from bounded sets. *)

SizingInserts == (-1)..MaxCapacity
SizingBits == 0..(2 * MaxBits) \cup {Infinity}

(* before any constructor call: there is no filter object *)
SizingInit ==
    /\ kind = "None"
    /\ bits = Undefined
    /\ k = Undefined
    /\ bitArray = BitVector(0, FALSE)
    /\ hashOne = MurReset(seedOne)
    /\ hashTwo = MurReset(seedTwo)
    /\ inserts = Undefined
    /\ capacity = Undefined
    /\ ret = [NoCall EXCEPT !.op = "none"]
    /\ target = Undefined
    /\ calls = 0
    /\ added = {}
    /\ arg = NoFilter
    /\ nums = <<>>
    /\ twin = NoTwin

(* a static call: it returns or throws, and touches no filter *)
StaticCall(op, r) ==
    /\ ret' = [op |-> op, key |-> <<>>, ok |-> ~r.throws, error |-> r.error,
               bool |-> FALSE, num |-> r.value, idx |-> <<>>]
    /\ UNCHANGED <<kind, bits, k, bitArray, hashOne, hashTwo, inserts, capacity, target,
                   calls, added, arg, twin>>

EstimateNumberBits(expectedInserts, rate) ==
    /\ StaticCall("estimateNumberBits", estimateNumberBits(expectedInserts, rate))
    /\ nums' = <<expectedInserts, rate>>

OptimalNumHashFunctions(expectedInserts, nbits) ==
    /\ StaticCall("optimalNumHashFunctions",
                  Return(optimalNumHashFunctions(expectedInserts, nbits)))
    /\ nums' = <<expectedInserts, nbits>>

(* new SafeBloomFilter(expectedInserts, falsePositiveRate): the object, or *)
(* the error that leaves no object                                        *)
NewSafeBloomFilter(expectedInserts, rate, storageBits) ==
    LET a == SafeBloomFilterArgs(expectedInserts, rate)
        f == Fields("SafeBloomFilter", a.bits, a.k, expectedInserts, storageBits)
    IN  /\ kind = "None"
        /\ nums' = <<expectedInserts, rate>>
        /\ UNCHANGED <<calls, added, arg, twin>>
        /\ IF a.error = ""
           THEN /\ kind' = "SafeBloomFilter"
                /\ bits' = f.bits
                /\ k' = f.k
                /\ bitArray' = f.bitArray
                /\ hashOne' = f.hashOne
                /\ hashTwo' = f.hashTwo
                /\ inserts' = f.inserts
                /\ capacity' = f.capacity
                /\ target' = rate
                /\ ret' = NoCall
           ELSE /\ ret' = [NoCall EXCEPT !.ok = FALSE, !.error = a.error]
                /\ UNCHANGED <<kind, bits, k, bitArray, hashOne, hashTwo, inserts,
                               capacity, target>>

SizingNext ==
    \/ \E n \in SizingInserts, p \in Rates : EstimateNumberBits(n, p)
    \/ \E n \in SizingInserts, b \in SizingBits : OptimalNumHashFunctions(n, b)
    \/ \E n \in SizingInserts, p \in Rates, storageBits \in BOOLEAN :
           NewSafeBloomFilter(n, p, storageBits)

SizingSpec == SizingInit /\ [][SizingNext]_vars

-----------------------------------------------------------------------------
(* Properties *)

Min(a, b) == IF a <= b THEN a ELSE b

(* a > b on JavaScript numbers: false when either side is NaN *)
JsGt(a, b) == IsNumber(a) /\ IsNumber(b) /\ a > b

PlainFilter == kind \in {"BloomFilter", "IndexBloomFilter"}
SafeFilter == kind = "SafeBloomFilter"

ContainsIn(bv, key) == ContainsLoop(bv, calculateBitIndices(key).kHashes, 1)

(* C3: a rejected add changes nothing.  The step of an add that fails       *)
(* leaves the bit array, insertCount, capacity, bitCount, hashCount and both *)
(* hash objects as they were, and every contains answer with them.          *)
C3_RejectedAddChangesNothing ==
    [][(calls' = calls + 1 /\ ~ret'.ok) =>
          /\ UNCHANGED <<bitArray, inserts, capacity, bits, k, hashOne, hashTwo>>
          /\ \A key \in Keys : ContainsIn(bitArray', key) = ContainsIn(bitArray, key)]_vars

(* an add was rejected on a filter that holds a key *)
C3_Witness ==
    /\ ret.op = "add" /\ ~ret.ok /\ ret.error = "Filter at capacity"
    /\ added # {} /\ bitArray.array # {}

(* C4: on a SafeBloomFilter, 0 <= insertCount <= capacity in every state. *)
C4_InsertCountWithinCapacity ==
    SafeFilter => (inserts <= capacity /\ inserts >= 0)

C6_InsertCountIsAddCalls ==
    (PlainFilter /\ calls > 0) => inserts = calls

(* what a newly built filter of the same bitCount and hashCount returns for key *)
FreshIndices(key) ==
    kHashesFrom(0, MurResult(MurHash(MurMur(<<>>, seedOne), key)),
                   MurResult(MurHash(MurMur(<<>>, seedTwo), key)))

(* C7: calculateBitIndices is deterministic.  Whatever calls came before,   *)
(* it returns for a key what a newly built filter of the same bitCount and  *)
(* hashCount returns for it, hence the same sequence on every call.         *)
C7_Deterministic ==
    ret.op = "calculateBitIndices" => ret.idx = FreshIndices(ret.key)

(* indices were asked for after adds, of a key that was not added *)
C7_Witness ==
    /\ ret.op = "calculateBitIndices" /\ calls >= 2 /\ ret.key \notin added
    /\ bits > 1 /\ Len(ret.idx) > 1

(* the key's hash under a seed *)
HashOf(key, seed) == MurResult(MurHash(MurReset(seed), key))

(* C8: with bitCount > 0, calculateBitIndices(key) returns exactly          *)
(* hashCount entries, the i-th (from 0) being (h1 + i*h2) mod bitCount for   *)
(* the key's hashes h1, h2 under the two seeds; each lies in [0, bitCount).  *)
C8_IndexFormula ==
    (bits > 0 /\ ret.op = "calculateBitIndices") =>
        /\ Len(ret.idx) = k
        /\ \A i \in 0..(k - 1) :
              /\ ret.idx[i + 1] = (HashOf(ret.key, seedOne) + i * HashOf(ret.key, seedTwo)) % bits
              /\ ret.idx[i + 1] \in 0..(bits - 1)

(* several indices were returned, not all the same *)
C8_Witness ==
    /\ ret.op = "calculateBitIndices" /\ bits > 1 /\ k > 1
    /\ Len(ret.idx) = k /\ ret.idx[1] # ret.idx[2]

(* C9: contains(key) is true exactly when every bit at the positions        *)
(* calculateBitIndices(key) is set; on a filter with hashCount >= 1 and no  *)
(* adds it is false for every key.                                          *)
C9_ContainsIffAllSet ==
    /\ ret.op = "contains" =>
          (ret.bool <=> \A i \in 1..Len(FreshIndices(ret.key)) :
                            BvGet(bitArray, FreshIndices(ret.key)[i]))
    /\ (calls = 0 /\ k >= 1) => \A key \in Keys : ~contains(key).bool

(* contains answered false for a key some of whose bits are set *)
C9_Witness ==
    /\ ret.op = "contains" /\ ~ret.bool /\ k > 1
    /\ \E i \in 1..k : BvGet(bitArray, FreshIndices(ret.key)[i])

(* C10: the queries are pure.  A step of contains, equals,                  *)
(* falsePositiveRate or calculateBitIndices leaves the bit array,           *)
(* insertCount, bitCount, hashCount and capacity unchanged.                 *)
C10_QueriesArePure ==
    [][ret'.op \in {"contains", "equals", "falsePositiveRate", "calculateBitIndices"}
          => UNCHANGED <<bitArray, inserts, bits, k, capacity>>]_vars

(* contains returned false early on a filter that holds keys *)
C10_Witness ==
    /\ ret.op = "contains" /\ ~ret.bool /\ added # {} /\ k > 1
    /\ ~BvGet(bitArray, FreshIndices(ret.key)[1])

(* the two bit arrays have the same length and the same value at every position *)
SameBits(a, b) ==
    /\ a.length = b.length
    /\ \A i \in 0..(8 * a.length - 1) : BvGet(a, i) <=> BvGet(b, i)

C12_RateFormula ==
    ((PlainFilter /\ bits > 0 /\ k > 0)
        \/ (SafeFilter /\ capacity >= 0 /\ target \in 0..1000)) =>
        LET rate == falsePositiveRate.num
        IN  /\ rate \in 0..1000
            /\ bits > 0 => rate = ToFixed3(Pow(BvCount(bitArray), k), Pow(bits, k))
            /\ calls = 0 => rate = 0
            /\ rate > 0 => bitArray.array # {}

(* C13: monotonic fill.  No step of any operation lowers the value that     *)
(* falsePositiveRate() returns: after an add, and after any other call, it  *)
(* is equal to or greater than before, and a falsePositiveRate() call       *)
(* returns the value of the state it is made in.                            *)
C13_MonotonicFill ==
    [][/\ ~JsGt(Rate(BvCount(bitArray), bitArray.bits, k),
                Rate(BvCount(bitArray'), bitArray'.bits, k'))
       /\ ret'.op = "falsePositiveRate" =>
              ret'.num = Rate(BvCount(bitArray), bitArray.bits, k)]_vars

(* the rate was asked for after a second add that set further bits *)
C13_Witness ==
    /\ ret.op = "falsePositiveRate" /\ calls >= 2 /\ Cardinality(added) >= 2
    /\ BvCount(bitArray) >= 2 /\ ret.num \in 1..1000

(* C14: estimateNumberBits(n, p) looks at n first.  With n <= 0 it returns  *)
(* 0 for every p, also p < 0 and p > 1, and does not throw; with n > 0 and  *)
(* p < 0 or p > 1 it throws 'Invalid false positive rate' and returns       *)
(* nothing; with n > 0 and 0 <= p <= 1 it does not throw.                   *)
C14_InsertsCheckedFirst ==
    ret.op = "estimateNumberBits" =>
        LET n == nums[1]
            p == nums[2]
        IN  /\ n <= 0 => (ret.ok /\ ret.num = 0)
            /\ (n > 0 /\ (p < 0 \/ p > 1000)) =>
                  (~ret.ok /\ ret.error = "Invalid false positive rate" /\ ret.num = Undefined)
            /\ (n > 0 /\ p >= 0 /\ p <= 1000) => ret.ok

(* 0 was returned for a rate above 1, with no inserts expected *)
C14_Witness ==
    /\ ret.op = "estimateNumberBits" /\ nums[1] <= 0 /\ nums[2] > 1000
    /\ ret.ok /\ ret.num = 0

(* C15: whenever estimateNumberBits(n, p) returns, the result is a          *)
(* non-negative integer, and it is above 0 for every n > 0 and every rate   *)
(* 0 <= p <= 1.                                                             *)
C15_BitsPositive ==
    (ret.op = "estimateNumberBits" /\ ret.ok) =>
        /\ IsNumber(ret.num)
        /\ (nums[1] > 0 /\ nums[2] >= 0 /\ nums[2] <= 1000) => ret.num > 0

(* C16: optimalNumHashFunctions(n, bits), for a finite bits >= 0, returns   *)
(* an integer >= 1: ceil((bits / n) * ln 2) when that is above 1, and 1     *)
(* otherwise, which includes every n <= 0.                                  *)
C16_HashCountFloor ==
    (ret.op = "optimalNumHashFunctions" /\ IsNumber(nums[2])) =>
        LET n == nums[1]
            b == nums[2]
        IN  /\ ret.ok /\ IsNumber(ret.num) /\ ret.num >= 1
            /\ n <= 0 => ret.num = 1
            /\ n > 0 => ret.num = IF b * LN2 > n * Million
                                  THEN CeilDiv(b * LN2, n * Million) ELSE 1

(* C17: new SafeBloomFilter(n, p) either fails with 'Invalid false positive *)
(* rate', exactly when n > 0 and p is outside [0,1], and then there is no   *)
(* filter; or it yields a filter with bitCount = estimateNumberBits(n, p),  *)
(* hashCount = optimalNumHashFunctions(n, bitCount), capacity = n,          *)
(* insertCount = 0 and a bit array for bitCount bits, all zero.             *)
C17_Constructor ==
    ret.op = "new" =>
        LET n == nums[1]
            p == nums[2]
        IN  /\ ~ret.ok <=> (n > 0 /\ (p < 0 \/ p > 1000))
            /\ ~ret.ok => (ret.error = "Invalid false positive rate" /\ kind = "None")
            /\ ret.ok =>
                  /\ kind = "SafeBloomFilter"
                  /\ bits = estimateNumberBits(n, p).value
                  /\ k = optimalNumHashFunctions(n, bits)
                  /\ capacity = n
                  /\ inserts = 0
                  /\ bitArray.array = {}
                  /\ bitArray.length = CeilDiv(bits, 8)

(* the positions calculateBitIndices(key) returns, as a set *)
Positions(key) == {FreshIndices(key)[i] : i \in 1..Len(FreshIndices(key))}

(* C18: the bit array only grows and only add changes it.  No step clears a *)
(* bit or sets a position outside [0, bitCount); a step that changes the    *)
(* bit array is an add that returned; and such an add (bitCount > 0) leaves *)
(* the set bits equal to the previous ones united with the positions        *)
(* calculateBitIndices(key).                                                *)
C18_BitsOnlyGrow ==
    [][/\ bitArray.array \subseteq bitArray'.array
       /\ bitArray'.array \subseteq 0..(bits - 1)
       /\ bitArray'.length = bitArray.length
       /\ bitArray' # bitArray => (ret'.op = "add" /\ ret'.ok /\ calls' = calls + 1)
       /\ (calls' = calls + 1 /\ ret'.ok /\ bits > 0) =>
              bitArray'.array = bitArray.array \cup Positions(ret'.key)]_vars

(* a second key was added, and the bits of the first are still set *)
C18_Witness ==
    /\ ret.op = "add" /\ ret.ok /\ Cardinality(added) >= 2 /\ bits > 1 /\ k > 1
    /\ Positions(ret.key) \subseteq bitArray.array
    /\ bitArray.array \ Positions(ret.key) # {}

(* C19: between operations both hash objects are in their clean seeded     *)
(* state: after the constructor and after every call (add, rejected add,    *)
(* contains that returns early, calculateBitIndices, equals,                *)
(* falsePositiveRate) hashOne holds only seed 535345345 and hashTwo only    *)
(* seed 312312323, with no input absorbed.                                  *)
C19_HashesClean ==
    /\ hashOne = [h1 |-> 535345345, len |-> 0]
    /\ hashTwo = [h1 |-> 312312323, len |-> 0]

(* contains returned early, after an add, on a filter with several hashes *)
C19_Witness ==
    /\ ret.op = "contains" /\ ~ret.bool /\ calls >= 1 /\ added # {} /\ k > 1
    /\ hashOne.len = 0 /\ hashTwo.len = 0

====
